---- MODULE Spec2Model ----
(***************************************************************************)
(* The products data-access module of the e-commerce backend               *)
(* (src/backend/server/server.js, lines 34-225): createProduct,            *)
(* getProducts, getSingleProduct, updateProduct and deleteProduct over the *)
(* table `products`, each returning an envelope {success, ...}.            *)
(*                                                                         *)
(* Every handler awaits exactly one client.query; what runs before and     *)
(* after the await touches only the handler's locals, and the store        *)
(* executes one statement atomically, so a call is one atomic action.      *)
(***************************************************************************)
EXTENDS Integers, Sequences, FiniteSets, TLC

VARIABLES
  products,   \* the rows of table products (a set of row records)
  nextId,     \* the id the store gives to the next inserted row
  clock,      \* the store's now(), the created_at of the next inserted row
  call,       \* the last call made: operation and arguments
  sent,       \* the query that call sent to the store, or NoQuery
  ret,        \* how that call ended: the envelope returned, or a throw
  pre,        \* the rows of the table when that call started
  created,    \* history: the ids of the rows inserted, oldest first
  deleted     \* history: the ids a deleteProduct call removed

vars == <<products, nextId, clock, call, sent, ret, pre, created, deleted>>

-----------------------------------------------------------------------------
(* Bounds of the model *)

\* at most this many rows are ever inserted
MaxId == 2

-----------------------------------------------------------------------------
(* JavaScript values: strings, numbers, undefined *)

Str(s) == [t |-> "string", s |-> s, n |-> 0]
Num(n) == [t |-> "number", s |-> "", n |-> n]
Undefined == [t |-> "undefined", s |-> "", n |-> 0]

\* a faulty Truthy: a defined-ness test (v !== undefined)
TruthyDefined(v) == v.t # "undefined"

\* if (v): "" , 0 and undefined are falsy
Truthy(v) ==
  CASE v.t = "string" -> v.s # ""
    [] v.t = "number" -> v.n # 0
    [] OTHER -> FALSE

\* v <= 0 for a number v
LeqZero(v) == v.t = "number" /\ v.n <= 0

\* the five updatable columns, in the order updateProduct tests them
Columns == <<"name", "description", "price", "category_id", "image_url">>

\* data === null or undefined: reading data.name throws a TypeError
NullData == [isNull |-> TRUE, name |-> Undefined, description |-> Undefined,
             price |-> Undefined, category_id |-> Undefined, image_url |-> Undefined]

Data(n, d, p, c, i) ==
  [isNull |-> FALSE, name |-> n, description |-> d, price |-> p,
   category_id |-> c, image_url |-> i]

-----------------------------------------------------------------------------
(* Envelopes and queries *)

NoQuery == [stmt |-> "none", fields |-> <<>>, where |-> 0, values |-> <<>>]

Success(key, rows) ==
  [kind |-> "return", success |-> TRUE, error |-> "", key |-> key, rows |-> rows]

Failure(message) ==
  [kind |-> "return", success |-> FALSE, error |-> message, key |-> "", rows |-> <<>>]

Thrown(message) ==
  [kind |-> "throw", success |-> FALSE, error |-> message, key |-> "", rows |-> <<>>]

StoreErrorMessage == "store error"
TypeErrorMessage == "Cannot read properties of null"
PriceMessage == "Price must be a positive number."
NoFieldsMessage == "No fields to update."
ItemNotFound == "Item not found"
ProductNotFound == "Product not found."

NoCall == [op |-> "none", product_id |-> 0, data |-> NullData, dbOk |-> TRUE]

-----------------------------------------------------------------------------
(* The store: what the five statements do to the table *)

\* the id the table generates for a new row: never one given before
GeneratedId == nextId

\* the created_at the table generates for a new row: later than every earlier one
GeneratedCreatedAt == clock

\* the constraints of the table on a row's values: none is described
SchemaAccepts(row) == TRUE

\* the placeholders a statement names
Placeholders(q) ==
  {q.fields[k].ph : k \in 1..Len(q.fields)} \cup (IF q.where = 0 THEN {} ELSE {q.where})

\* client.query(text, values): the store takes the statement only if its
\* placeholders are $1..$n for the n values bound, and a SET clause is not empty
Binds(q) ==
  /\ IF q.stmt = "INSERT" THEN Len(q.values) = 5
      ELSE Placeholders(q) = 1..Len(q.values)
  /\ q.stmt = "UPDATE" => Len(q.fields) > 0

\* INSERT INTO products (name, description, price, category_id, image_url)
\* VALUES ($1, $2, $3, $4, $5): the new row
InsertedRow(values) ==
  [id |-> GeneratedId, name |-> values[1], description |-> values[2],
   price |-> values[3], category_id |-> values[4], image_url |-> values[5],
   created_at |-> GeneratedCreatedAt]

\* a faulty OrderByCreatedAtDesc: ORDER BY created_at ASC
RECURSIVE OrderByCreatedAtAsc(_)
OrderByCreatedAtAsc(S) ==
  IF S = {} THEN <<>>
  ELSE LET m == CHOOSE r \in S : \A o \in S : r.created_at <= o.created_at
       IN <<m>> \o OrderByCreatedAtAsc(S \ {m})

\* SELECT * FROM products ORDER BY created_at DESC
RECURSIVE OrderByCreatedAtDesc(_)
OrderByCreatedAtDesc(S) ==
  IF S = {} THEN <<>>
  ELSE LET m == CHOOSE r \in S : \A o \in S : o.created_at <= r.created_at
       IN <<m>> \o OrderByCreatedAtDesc(S \ {m})

\* the rows a WHERE id = $k clause selects
WhereId(tbl, value) == {r \in tbl : value.t = "number" /\ r.id = value.n}

\* a set of at most one row as the rows array of the result
RowsOf(S) == IF S = {} THEN <<>> ELSE <<CHOOSE r \in S : TRUE>>

\* SET <column> = $<ph>: the row with one column assigned
SetColumn(r, col, v) == [r EXCEPT ![col] = v]

\* the SET clause applied to a row, assignment by assignment
RECURSIVE ApplySet(_, _, _)
ApplySet(r, fields, values) ==
  IF fields = <<>> THEN r
  ELSE ApplySet(SetColumn(r, Head(fields).col, values[Head(fields).ph]),
                Tail(fields), values)

\* UPDATE products SET <fields> WHERE id = $<where>: the table afterwards
UpdatedTable(tbl, q) ==
  LET hit == WhereId(tbl, q.values[q.where])
  IN (tbl \ hit) \cup {ApplySet(r, q.fields, q.values) : r \in hit}

\* ... RETURNING ...: the updated rows
UpdatedRows(tbl, q) ==
  RowsOf({ApplySet(r, q.fields, q.values) : r \in WhereId(tbl, q.values[q.where])})

\* a faulty DeletedTable: DELETE FROM products, with no WHERE clause
DeletedTableAll(tbl, q) == {}

\* DELETE FROM products WHERE id = $1: the table afterwards
DeletedTable(tbl, q) == tbl \ WhereId(tbl, q.values[q.where])

\* rowCount of the DELETE
DeletedCount(tbl, q) == Cardinality(WhereId(tbl, q.values[q.where]))

-----------------------------------------------------------------------------
(* updateProduct: the query it builds *)

\* a faulty Push: values.unshift(v) for values.push(v)
PushFront(st, col, v) ==
  [fields |-> Append(st.fields, [col |-> col, ph |-> Len(st.fields) + 1]),
   values |-> <<v>> \o st.values]

\* fields.push(`<col> = $${fields.length + 1}`); values.push(v)
Push(st, col, v) ==
  [fields |-> Append(st.fields, [col |-> col, ph |-> Len(st.fields) + 1]),
   values |-> Append(st.values, v)]

\* if (data.<col>) { push }
PushIfGiven(st, col, v) == IF Truthy(v) THEN Push(st, col, v) ELSE st

\* a faulty WherePlaceholder: the id bound to the last field's placeholder
WherePlaceholderLast(fields) == Len(fields)

\* WHERE id = $${fields.length + 1}
WherePlaceholder(fields) == Len(fields) + 1

\* if (data.price) { if (data.price <= 0) return failure }
PriceRejected(data) == Truthy(data.price) /\ LeqZero(data.price)

\* a faulty NothingToUpdate: the check is missing
NothingToUpdateNever(fields) == FALSE

\* if (fields.length === 0) return failure
NothingToUpdate(fields) == Len(fields) = 0

\* the body of the try block up to the query: a return, a throw or a query.
\* data.price is a number or undefined here; a price of another type is not
\* among the inputs.
updateBuild(product_id, data) ==
  IF data.isNull
    THEN [kind |-> "throw", ret |-> Thrown(TypeErrorMessage), query |-> NoQuery]
  ELSE
    LET s0 == [fields |-> <<>>, values |-> <<>>]
        s1 == PushIfGiven(s0, "name", data.name)
        s2 == PushIfGiven(s1, "description", data.description)
    IN IF PriceRejected(data)
         THEN [kind |-> "return", ret |-> Failure(PriceMessage), query |-> NoQuery]
       ELSE
         LET s3 == PushIfGiven(s2, "price", data.price)
             s4 == PushIfGiven(s3, "category_id", data.category_id)
             s5 == PushIfGiven(s4, "image_url", data.image_url)
         IN IF NothingToUpdate(s5.fields)
              THEN [kind |-> "return", ret |-> Failure(NoFieldsMessage), query |-> NoQuery]
            ELSE [kind |-> "query", ret |-> Failure(""),
                  query |-> [stmt |-> "UPDATE", fields |-> s5.fields,
                             where |-> WherePlaceholder(s5.fields),
                             values |-> Append(s5.values, Num(product_id))]]

-----------------------------------------------------------------------------
(* The catch blocks and the not-found tests *)

\* catch (error) { return { success: false, error: error.message } }
createCatch(message) == Failure(message)

\* the same catch in getProducts, getSingleProduct and updateProduct
getProductsCatch(message) == Failure(message)

getSingleProductCatch(message) == Failure(message)

updateCatch(message) == Failure(message)

\* a faulty deleteCatch: the error escapes
deleteRethrow(message) == Thrown(message)

\* the same catch in deleteProduct
deleteCatch(message) == Failure(message)

\* if (rows.length === 0) in getSingleProduct
getSingleProductNotFound(rows) == Len(rows) = 0

\* a faulty updateNotFound: the test is missing
updateNotFoundNever(rows) == FALSE

\* if (rows.length === 0) in updateProduct
updateNotFound(rows) == Len(rows) = 0

\* if (rowCount === 0) in deleteProduct
deleteNotFound(rowCount) == rowCount = 0

-----------------------------------------------------------------------------
(* The five operations *)

Init ==
  /\ products = {}
  /\ nextId = 1
  /\ clock = 1
  /\ call = NoCall
  /\ sent = NoQuery
  /\ ret = Failure("")
  /\ pre = {}
  /\ created = <<>>
  /\ deleted = {}

\* dbOk: whether the store carries the statement out; when it does not (no
\* connection, a constraint, a type error) client.query rejects
createProduct(data, dbOk) ==
  LET q == [stmt |-> "INSERT", fields |-> <<>>, where |-> 0,
            values |-> <<data.name, data.description, data.price,
                         data.category_id, data.image_url>>]
      row == InsertedRow(q.values)
  IN /\ call' = [op |-> "createProduct", product_id |-> 0, data |-> data, dbOk |-> dbOk]
     /\ pre' = products
     /\ sent' = q
     /\ IF dbOk /\ Binds(q) /\ SchemaAccepts(row)
          THEN /\ products' = products \cup {row}
               /\ nextId' = nextId + 1
               /\ clock' = clock + 1
               /\ ret' = Success("product", <<row>>)
               /\ created' = Append(created, row.id)
          ELSE /\ ret' = createCatch(StoreErrorMessage)
               /\ UNCHANGED <<products, nextId, clock, created>>
     /\ UNCHANGED deleted

getProducts(dbOk) ==
  LET q == [stmt |-> "SELECT ALL", fields |-> <<>>, where |-> 0, values |-> <<>>]
  IN /\ call' = [op |-> "getProducts", product_id |-> 0, data |-> NullData, dbOk |-> dbOk]
     /\ pre' = products
     /\ sent' = q
     /\ ret' = IF dbOk /\ Binds(q) THEN Success("products", OrderByCreatedAtDesc(products))
               ELSE getProductsCatch(StoreErrorMessage)
     /\ UNCHANGED <<products, nextId, clock, created, deleted>>

getSingleProduct(product_id, dbOk) ==
  LET q == [stmt |-> "SELECT", fields |-> <<>>, where |-> 1, values |-> <<Num(product_id)>>]
      rows == RowsOf(WhereId(products, q.values[q.where]))
  IN /\ call' = [op |-> "getSingleProduct", product_id |-> product_id,
                 data |-> NullData, dbOk |-> dbOk]
     /\ pre' = products
     /\ sent' = q
     /\ ret' = IF ~(dbOk /\ Binds(q)) THEN getSingleProductCatch(StoreErrorMessage)
               ELSE IF getSingleProductNotFound(rows) THEN Failure(ItemNotFound)
               ELSE Success("item", rows)
     /\ UNCHANGED <<products, nextId, clock, created, deleted>>

updateProduct(product_id, data, dbOk) ==
  LET b == updateBuild(product_id, data)
      q == b.query
  IN /\ call' = [op |-> "updateProduct", product_id |-> product_id,
                 data |-> data, dbOk |-> dbOk]
     /\ pre' = products
     /\ sent' = q
     /\ IF b.kind = "query"
          THEN IF dbOk /\ Binds(q)
                      /\ \A r \in UpdatedTable(products, q) : SchemaAccepts(r)
                 THEN /\ products' = UpdatedTable(products, q)
                      /\ ret' = IF updateNotFound(UpdatedRows(products, q))
                                  THEN Failure(ProductNotFound)
                                ELSE Success("product", UpdatedRows(products, q))
                 ELSE /\ products' = products
                      /\ ret' = updateCatch(StoreErrorMessage)
          ELSE /\ products' = products
               /\ ret' = IF b.kind = "throw" THEN updateCatch(b.ret.error) ELSE b.ret
     /\ UNCHANGED <<nextId, clock, created, deleted>>

deleteProduct(product_id, dbOk) ==
  LET q == [stmt |-> "DELETE", fields |-> <<>>, where |-> 1, values |-> <<Num(product_id)>>]
      rowCount == DeletedCount(products, q)
  IN /\ call' = [op |-> "deleteProduct", product_id |-> product_id,
                 data |-> NullData, dbOk |-> dbOk]
     /\ pre' = products
     /\ sent' = q
     /\ IF dbOk /\ Binds(q)
          THEN /\ products' = DeletedTable(products, q)
               /\ ret' = IF deleteNotFound(rowCount) THEN Failure(ProductNotFound)
                         ELSE Success("none", <<>>)
               /\ deleted' = IF ret'.success THEN deleted \cup {product_id} ELSE deleted
          ELSE /\ ret' = deleteCatch(StoreErrorMessage)
               /\ UNCHANGED <<products, deleted>>
     /\ UNCHANGED <<nextId, clock, created>>

-----------------------------------------------------------------------------
(* Inputs *)

\* arguments of createProduct: a valid product, one with every field falsy,
\* one with a negative price
NewProducts ==
  { Data(Str("a"), Str("d"), Num(1), Num(1), Str("u")),
    Data(Str(""), Str(""), Num(0), Num(0), Str("")),
    Data(Str("a"), Str("d"), Num(-1), Num(1), Str("u")) }

\* payloads of updateProduct in Spec
Patches ==
  { NullData,
    Data(Undefined, Undefined, Undefined, Undefined, Undefined),
    Data(Undefined, Undefined, Num(-1), Undefined, Undefined),
    Data(Undefined, Str("e"), Undefined, Undefined, Undefined),
    Data(Str("b"), Undefined, Num(0), Undefined, Undefined) }

\* payloads of updateProduct in SpecUpdate: every field absent, falsy or truthy
AllPatches ==
  { Data(n, d, p, c, i) :
      n \in {Undefined, Str(""), Str("b")},
      d \in {Undefined, Str(""), Str("e")},
      p \in {Undefined, Num(0), Num(-1), Num(2)},
      c \in {Undefined, Num(0), Num(2)},
      i \in {Undefined, Str(""), Str("v")} }

\* the ids a call may name: every id given so far and one never given
Ids == 1..nextId

Create ==
  /\ nextId <= MaxId
  /\ \E data \in NewProducts, dbOk \in BOOLEAN : createProduct(data, dbOk)

List == \E dbOk \in BOOLEAN : getProducts(dbOk)

GetOne == \E product_id \in Ids, dbOk \in BOOLEAN : getSingleProduct(product_id, dbOk)

Update ==
  \E product_id \in Ids, data \in Patches, dbOk \in BOOLEAN :
    updateProduct(product_id, data, dbOk)

Delete == \E product_id \in Ids, dbOk \in BOOLEAN : deleteProduct(product_id, dbOk)

Next == Create \/ List \/ GetOne \/ Update \/ Delete

\* any sequence of the five operations, updates with the payloads of Patches
Spec == Init /\ [][Next]_vars

\* SpecUpdate: a table filled by createProduct calls, then one updateProduct
\* call with any payload of AllPatches on any id
CreateU ==
  /\ call.op # "updateProduct"
  /\ Create

UpdateU ==
  /\ call.op # "updateProduct"
  /\ \E product_id \in Ids, data \in AllPatches, dbOk \in BOOLEAN :
       updateProduct(product_id, data, dbOk)

NextUpdate == CreateU \/ UpdateU

SpecUpdate == Init /\ [][NextUpdate]_vars

-----------------------------------------------------------------------------
(* What the claims speak of *)

\* "", 0 and undefined, as values
IsFalsy(v) == v = Undefined \/ v = Str("") \/ v = Num(0)

\* the rows of a table with an id
RowAt(tbl, id) == {r \in tbl : r.id = id}

\* the last call was updateProduct with a payload object
UpdateCalled == call.op = "updateProduct" /\ ~call.data.isNull

UpdateSucceeded == UpdateCalled /\ ret.kind = "return" /\ ret.success

\* the columns of a payload with a truthy value, in the order of Columns
Included(d) ==
  LET Given(c) == ~IsFalsy(d[c]) IN SelectSeq(Columns, Given)

\* a payload with its falsy fields taken out
Defalsified(d) ==
  [f \in DOMAIN d |-> IF f # "isNull" /\ IsFalsy(d[f]) THEN Undefined ELSE d[f]]

\* a payload updateProduct is to accept: a field with a value, a positive price
ValidPayload(d) ==
  /\ ~d.isNull
  /\ \E k \in 1..Len(Columns) : ~IsFalsy(d[Columns[k]])
  /\ d.price = Undefined \/ (d.price.t = "number" /\ d.price.n > 0)

\* the ids inserted and not deleted, newest first
LiveNewestFirst ==
  LET Live(i) == i \notin deleted
      newest == [k \in 1..Len(created) |-> created[Len(created) + 1 - k]]
  IN SelectSeq(newest, Live)

-----------------------------------------------------------------------------
(* The claims *)

\* C1: an updateProduct call whose price is present and <= 0 (zero included,
\* whatever else the payload carries) returns a failure envelope, sends no
\* query and leaves every row unchanged.
C1_PriceNotPositiveRejected ==
  (UpdateCalled /\ call.data.price.t = "number" /\ call.data.price.n <= 0)
    => /\ ret.kind = "return" /\ ~ret.success
       /\ sent = NoQuery
       /\ products = pre

\* C2: every stored product has a strictly positive price.
C2_StoredPricePositive ==
  \A r \in products : r.price.t = "number" /\ r.price.n > 0

\* C3 as stated: a successful updateProduct sets every field the payload
\* supplies to the supplied value, keeps the id and the fields not supplied,
\* and leaves every other row unchanged.
C3_SuppliedFieldsChange ==
  UpdateSucceeded =>
    /\ Cardinality(RowAt(pre, call.product_id)) = 1
    /\ Cardinality(RowAt(products, call.product_id)) = 1
    /\ LET old == CHOOSE r \in pre : r.id = call.product_id
           new == CHOOSE r \in products : r.id = call.product_id
       IN /\ new.created_at = old.created_at
          /\ \A k \in 1..Len(Columns) :
               new[Columns[k]] = IF call.data[Columns[k]] # Undefined
                                   THEN call.data[Columns[k]]
                                 ELSE old[Columns[k]]
          /\ products \ {new} = pre \ {old}

\* C3 amended: a successful updateProduct sets every field the payload
\* supplies with a truthy value to that value; the id, the fields not
\* supplied and the fields supplied with a falsy value ("", 0) keep their
\* prior values, and every other row is unchanged.
C3_TruthyFieldsChange ==
  UpdateSucceeded =>
    /\ Cardinality(RowAt(pre, call.product_id)) = 1
    /\ Cardinality(RowAt(products, call.product_id)) = 1
    /\ LET old == CHOOSE r \in pre : r.id = call.product_id
           new == CHOOSE r \in products : r.id = call.product_id
       IN /\ new.created_at = old.created_at
          /\ \A k \in 1..Len(Columns) :
               new[Columns[k]] = IF ~IsFalsy(call.data[Columns[k]])
                                   THEN call.data[Columns[k]]
                                 ELSE old[Columns[k]]
          /\ products \ {new} = pre \ {old}

\* a successful update of one of two rows: the description changes, the name,
\* not supplied, and the price, supplied as 0, do not
C3_Witness ==
  /\ UpdateSucceeded
  /\ Cardinality(pre) = 2
  /\ call.data.name = Undefined
  /\ call.data.price = Num(0)
  /\ call.data.description = Str("e")
  /\ \E old \in RowAt(pre, call.product_id), new \in RowAt(products, call.product_id) :
       old.description # Str("e") /\ new.description = Str("e") /\ new.name = old.name

\* C4: updateProduct with a payload that supplies none of the five fields
\* returns the "No fields to update." failure, sends no query and leaves
\* every row unchanged, whether or not the id exists.
C4_EmptyPayloadRejected ==
  (UpdateCalled /\ \A k \in 1..Len(Columns) : call.data[Columns[k]] = Undefined)
    => /\ ret.kind = "return" /\ ~ret.success /\ ret.error = NoFieldsMessage
       /\ sent = NoQuery
       /\ products = pre

\* an empty payload sent for the id of a stored row
C4_Witness ==
  /\ UpdateCalled
  /\ \A k \in 1..Len(Columns) : call.data[Columns[k]] = Undefined
  /\ RowAt(pre, call.product_id) # {}
  /\ ~ret.success

\* C5: once deleteProduct(id) has returned success, the table holds no row
\* with that id; a later getSingleProduct, updateProduct (with a query sent)
\* or deleteProduct on it fails, with the not-found message when the store
\* answers; and the successful delete removed exactly the row with that id.
C5_DeletedStaysDeleted ==
  /\ \A i \in deleted : RowAt(products, i) = {}
  /\ (call.product_id \in deleted /\ call.op = "getSingleProduct")
       => /\ ret.kind = "return" /\ ~ret.success
          /\ call.dbOk => ret.error = ItemNotFound
  /\ (call.product_id \in deleted /\ call.op = "updateProduct" /\ sent # NoQuery)
       => /\ ret.kind = "return" /\ ~ret.success
          /\ call.dbOk => ret.error = ProductNotFound
  /\ (call.product_id \in deleted /\ call.op = "deleteProduct" /\ RowAt(pre, call.product_id) = {})
       => /\ ret.kind = "return" /\ ~ret.success
          /\ call.dbOk => ret.error = ProductNotFound
  /\ (call.op = "deleteProduct" /\ ret.kind = "return" /\ ret.success)
       => /\ Cardinality(RowAt(pre, call.product_id)) = 1
          /\ products = pre \ RowAt(pre, call.product_id)

\* a fetch of a deleted id while another row is stored
C5_Witness ==
  /\ call.op = "getSingleProduct"
  /\ call.product_id \in deleted
  /\ call.dbOk
  /\ products # {}
  /\ ret.error = ItemNotFound

\* C6: for an id with no stored row, getSingleProduct, deleteProduct and
\* updateProduct with a valid payload return a failure envelope, with the
\* not-found message when the store answers, and change no row.
C6_UnknownIdNotFound ==
  (/\ RowAt(pre, call.product_id) = {}
   /\ \/ call.op = "getSingleProduct"
      \/ call.op = "deleteProduct"
      \/ call.op = "updateProduct" /\ ValidPayload(call.data))
    => /\ ret.kind = "return" /\ ~ret.success
       /\ products = pre
       /\ call.dbOk => ret.error = IF call.op = "getSingleProduct" THEN ItemNotFound
                                   ELSE ProductNotFound

\* an update with a valid payload for an id no row has, answered by the store
C6_Witness ==
  /\ call.op = "updateProduct"
  /\ ValidPayload(call.data)
  /\ RowAt(pre, call.product_id) = {}
  /\ pre # {}
  /\ call.dbOk
  /\ ret.error = ProductNotFound

\* C7: every call ends by returning an envelope whose success is true or
\* false, never by throwing; when the store fails the query the envelope is
\* {success: false, error: <the store's message>}.
C7_NeverThrows ==
  /\ ret.kind = "return"
  /\ ret.success \in BOOLEAN
  /\ (sent # NoQuery /\ ~call.dbOk)
       => /\ ~ret.success
          /\ ret.error = StoreErrorMessage
          /\ products = pre

\* a deleteProduct whose query the store failed
C7_Witness ==
  /\ call.op = "deleteProduct"
  /\ ~call.dbOk
  /\ RowAt(pre, call.product_id) # {}
  /\ ret.kind = "return" /\ ~ret.success /\ ret.error = StoreErrorMessage

\* C8: getProducts returns exactly the products created and not deleted,
\* each once, as stored, a product created later before every product
\* created earlier.
C8_ListNewestFirst ==
  (call.op = "getProducts" /\ call.dbOk)
    => /\ ret.kind = "return" /\ ret.success
       /\ Len(ret.rows) = Cardinality(products)
       /\ \A k \in 1..Len(ret.rows) : ret.rows[k] \in products
       /\ [k \in 1..Len(ret.rows) |-> ret.rows[k].id] = LiveNewestFirst
       /\ \A j, k \in 1..Len(ret.rows) :
            j < k => ret.rows[j].created_at > ret.rows[k].created_at

\* a listing of two products
C8_Witness ==
  /\ call.op = "getProducts"
  /\ call.dbOk
  /\ Len(ret.rows) >= 2
  /\ ret.rows[1].id > ret.rows[2].id

\* C9: in updateProduct a field supplied with a falsy value is treated as
\* absent: it is in no SET assignment and its stored value is unchanged; the
\* truthy fields of the payload are still assigned; a payload whose supplied
\* fields are all falsy is the "No fields to update." failure.
C9_FalsyIsAbsent ==
  UpdateCalled =>
    /\ \A k \in 1..Len(Columns) :
         IsFalsy(call.data[Columns[k]]) =>
           /\ \A j \in 1..Len(sent.fields) : sent.fields[j].col # Columns[k]
           /\ \A old \in RowAt(pre, call.product_id) :
                \E new \in RowAt(products, call.product_id) :
                  new[Columns[k]] = old[Columns[k]]
    /\ sent # NoQuery =>
         \A k \in 1..Len(Columns) :
           ~IsFalsy(call.data[Columns[k]]) =>
             \E j \in 1..Len(sent.fields) :
               /\ sent.fields[j].col = Columns[k]
               /\ sent.fields[j].ph \in 1..Len(sent.values)
               /\ sent.values[sent.fields[j].ph] = call.data[Columns[k]]
    /\ ret.success =>
         \A k \in 1..Len(Columns) :
           ~IsFalsy(call.data[Columns[k]]) =>
             \A new \in RowAt(products, call.product_id) :
               new[Columns[k]] = call.data[Columns[k]]
    /\ (\A k \in 1..Len(Columns) : IsFalsy(call.data[Columns[k]]))
         => /\ ~ret.success /\ ret.error = NoFieldsMessage
            /\ sent = NoQuery
    /\ updateBuild(call.product_id, call.data)
         = updateBuild(call.product_id, Defalsified(call.data))

\* price 0 and description "" supplied with a new name: only the name changes
C9_Witness ==
  /\ UpdateSucceeded
  /\ call.data.price = Num(0)
  /\ call.data.description = Str("")
  /\ call.data.name = Str("b")
  /\ \E new \in RowAt(products, call.product_id) :
       new.name = Str("b") /\ new.description = Str("d") /\ new.price = Num(1)

\* C10: the query updateProduct builds binds the k-th included field (in the
\* order name, description, price, category_id, image_url) to placeholder $k
\* with values[k] its supplied value, the WHERE id to $(n+1), and the values
\* are n+1 with product_id last.
C10_PlaceholdersConsistent ==
  (UpdateCalled /\ sent # NoQuery) =>
    LET inc == Included(call.data)
        n == Len(inc)
    IN /\ n >= 1
       /\ Len(sent.fields) = n
       /\ \A k \in 1..n :
            /\ sent.fields[k] = [col |-> inc[k], ph |-> k]
            /\ sent.values[k] = call.data[inc[k]]
       /\ sent.where = n + 1
       /\ Len(sent.values) = n + 1
       /\ sent.values[n + 1] = Num(call.product_id)

\* name, price and image_url supplied, description and category_id not
C10_Witness ==
  /\ UpdateCalled
  /\ call.data = Data(Str("b"), Undefined, Num(2), Undefined, Str("v"))
  /\ sent.where = 4
  /\ ret.success

====
